---- MODULE Spec2Model ----
(***************************************************************************)
(* A model of the Lox tree-walking evaluator of lox/ast.py and of the      *)
(* unary-operator rewrite of lox/transformer.py.                           *)
(*                                                                         *)
(* A state is one run of Program.eval: the statement list, the position of *)
(* the loop, and everything the evaluation can change (the context chain,  *)
(* the attributes of host objects, the standard output, the log of native  *)
(* calls).  Node.eval is the recursive operator Eval, one helper operator  *)
(* per node class, each threading the environment through its operands in  *)
(* the order the Python code evaluates them.  A Python exception is the    *)
(* err field of an evaluation result; "none" means normal completion.      *)
(***************************************************************************)
EXTENDS Integers, Sequences, FiniteSets, TLC

VARIABLES stmts, pc, status, ctx, heap, out, calls, nextId, last

vars == <<stmts, pc, status, ctx, heap, out, calls, nextId, last>>

(***************************************************************************)
(* Bounds.                                                                 *)
(***************************************************************************)
\* The longest Program.stmts list explored.
MaxStmts == 2

(***************************************************************************)
(* Runtime values (ast.py line 46, plus what Python itself can produce).   *)
(* A float is kept as sign and magnitude so that -0.0 stays apart from 0.0;*)
(* only floats with an integral value are explored.  PyInt is the Python   *)
(* int that negating a bool produces.                                      *)
(***************************************************************************)
Float(sign, mag) == [tag |-> "float", sign |-> sign, mag |-> mag]
PyInt(n) == [tag |-> "int", n |-> n]
Str(s) == [tag |-> "str", s |-> s]
Bool(b) == [tag |-> "bool", b |-> b]
Nil == [tag |-> "nil"]
\* A host function registered in the global context (a builtin such as math.sqrt).
Native(name) == [tag |-> "native", name |-> name]
\* A host object with an attribute dictionary.
Obj(id) == [tag |-> "obj", id |-> id]
\* The closure `wrapper` that UnaryOp.eval builds: the node's operator, the
\* callable it captured, and the identity of the new function object.
Wrapper(op, fn, id) == [tag |-> "wrapper", op |-> op, fn |-> fn, id |-> id]

\* Python's callable(val).
IsCallable(val) == val.tag \in {"native", "wrapper"}

\* isinstance(val, (int, float)): bool is a subclass of int in Python.
IsIntOrFloat(val) == val.tag \in {"float", "int", "bool"}

(***************************************************************************)
(* AST nodes, as the dataclasses of ast.py.                                *)
(***************************************************************************)
Literal(value) == [kind |-> "Literal", value |-> value]
Var(name) == [kind |-> "Var", name |-> name]
BinOp(left, right, op) == [kind |-> "BinOp", left |-> left, right |-> right, op |-> op]
And(left, right) == [kind |-> "And", left |-> left, right |-> right]
Or(left, right) == [kind |-> "Or", left |-> left, right |-> right]
UnaryOp(op, right) == [kind |-> "UnaryOp", op |-> op, right |-> right]
Call(callee, params) == [kind |-> "Call", callee |-> callee, params |-> params]
Assign(name, value) == [kind |-> "Assign", name |-> name, value |-> value]
Getattr(obj, attr) == [kind |-> "Getattr", obj |-> obj, attr |-> attr]
Setattr(obj, name, value) == [kind |-> "Setattr", obj |-> obj, name |-> name, value |-> value]
PrintStmt(expr) == [kind |-> "Print", expr |-> expr]

(***************************************************************************)
(* Evaluation results.                                                     *)
(***************************************************************************)
Env(c, h, o, k, n) == [ctx |-> c, heap |-> h, out |-> o, calls |-> k, nextId |-> n]
Ok(val, env) == [val |-> val, err |-> "none", env |-> env]
Raise(err, env) == [val |-> Nil, err |-> err, env |-> env]

(***************************************************************************)
(* Ctx: the chained context, innermost scope first.  The class lives in    *)
(* lox/ctx.py; ast.py uses ctx[name] and ctx[name] = val and expects       *)
(* KeyError from a failed lookup.                                          *)
(***************************************************************************)
RECURSIVE CtxFind(_, _, _)
\* The index of the innermost scope at or after i that binds name, 0 if none.
CtxFind(c, name, i) ==
    IF i > Len(c) THEN 0
    ELSE IF name \in DOMAIN c[i] THEN i
    ELSE CtxFind(c, name, i + 1)

CtxHas(c, name) == CtxFind(c, name, 1) # 0

\* ctx[name]: the nearest binding, or KeyError.
CtxGetItem(c, name) ==
    IF CtxHas(c, name)
    THEN [val |-> c[CtxFind(c, name, 1)][name], err |-> "none"]
    ELSE [val |-> Nil, err |-> "KeyError"]

\* ctx[name] = val: the nearest binding is replaced; a name bound nowhere in
\* the chain is KeyError and the chain is left as it was.
CtxSetItem(c, name, val) ==
    LET i == CtxFind(c, name, 1)
    IN IF i = 0
       THEN [ctx |-> c, err |-> "KeyError"]
       ELSE [ctx |-> [c EXCEPT ![i] = [c[i] EXCEPT ![name] = val]], err |-> "none"]

(***************************************************************************)
(* Attributes of host objects and of wrapper functions.                    *)
(***************************************************************************)
\* The values that carry an attribute dictionary.
HasDict(val) == val.tag \in {"obj", "wrapper"}

HeapKey(val) == val.id

HeapHas(h, val, attr) ==
    /\ HasDict(val)
    /\ HeapKey(val) \in DOMAIN h
    /\ attr \in DOMAIN h[HeapKey(val)]

HeapGet(h, val, attr) == h[HeapKey(val)][attr]

HeapSet(h, val, attr, v) ==
    LET k == HeapKey(val)
        old == IF k \in DOMAIN h THEN h[k] ELSE <<>>
    IN (k :> ((attr :> v) @@ old)) @@ h

(***************************************************************************)
(* Python text of a value, as print() writes it.                           *)
(***************************************************************************)
IntText(n) == ToString(n)

PyStr(val) ==
    CASE val.tag = "float" ->
           (IF val.sign < 0 THEN "-" ELSE "") \o IntText(val.mag) \o ".0"
      [] val.tag = "int" -> IntText(val.n)
      [] val.tag = "str" -> val.s
      [] val.tag = "bool" -> IF val.b THEN "True" ELSE "False"
      [] val.tag = "nil" -> "None"
      [] val.tag = "native" -> "<built-in function " \o val.name \o ">"
      [] val.tag = "wrapper" -> "<function UnaryOp.eval.<locals>.wrapper>"
      [] val.tag = "obj" -> "<object>"

(***************************************************************************)
(* is_truthy and the operators.                                            *)
(***************************************************************************)
\* Python's own truth value, bool(val): zero and the empty string are false too.
is_truthy_python(val) ==
    ~(val = Bool(FALSE) \/ val = Nil \/ (val.tag = "float" /\ val.mag = 0)
        \/ val = PyInt(0) \/ val = Str(""))

is_truthy(val) ==
    IF val = Bool(FALSE) \/ val = Nil THEN FALSE ELSE TRUE

\* -val for the Python numbers.
PyNeg(val) ==
    CASE val.tag = "float" -> Float(0 - val.sign, val.mag)
      [] val.tag = "int" -> PyInt(0 - val.n)
      [] val.tag = "bool" -> PyInt(IF val.b THEN -1 ELSE 0)

\* UnaryOp._apply: the value or the exception.
UnaryApply(op, val) ==
    IF op = "neg"
    THEN IF ~IsIntOrFloat(val)
         THEN [val |-> Nil, err |-> "TypeError"]
         ELSE [val |-> PyNeg(val), err |-> "none"]
    ELSE LET truthy == (val # Bool(FALSE) /\ val # Nil)
         IN [val |-> Bool(~truthy), err |-> "none"]

\* runtime.add, the one operator of lox/runtime.py explored: numbers add,
\* anything else is a type error.
NumValue(val) == IF val.tag = "float" THEN val.sign * val.mag ELSE val.n

RuntimeAdd(l, r) ==
    IF l.tag \in {"float", "int"} /\ r.tag \in {"float", "int"}
    THEN LET s == NumValue(l) + NumValue(r)
         IN [val |-> IF l.tag = "int" /\ r.tag = "int" THEN PyInt(s)
                     ELSE IF s < 0 THEN Float(-1, 0 - s)
                     ELSE IF s = 0 /\ l = Float(-1, 0) /\ r = Float(-1, 0) THEN Float(-1, 0)
                     ELSE Float(1, s),
             err |-> "none"]
    ELSE [val |-> Nil, err |-> "TypeError"]

(***************************************************************************)
(* Calling a callable value.                                               *)
(***************************************************************************)
RECURSIVE Invoke(_, _, _)
RECURSIVE Eval(_, _)
RECURSIVE EvalParams(_, _, _)

\* A native function: "id" takes exactly one argument and returns it, "count"
\* takes any number and returns how many.  Running the body is recorded in
\* calls; a wrong argument count is Python's TypeError, raised before the body.
InvokeNative(fn, args, env) ==
    IF fn.name = "id" /\ Len(args) # 1
    THEN Raise("TypeError", env)
    ELSE LET logged == [env EXCEPT !.calls = Append(@, [fn |-> fn.name, args |-> args])]
         IN IF fn.name = "id" THEN Ok(args[1], logged)
            ELSE Ok(Float(1, Len(args)), logged)

\* A wrapper that forgets the operator: return val(*args).
InvokeWrapperNoApply(fn, args, env) == Invoke(fn.fn, args, env)

\* wrapper(*args): return self._apply(val(*args))   (ast.py lines 206-207)
InvokeWrapper(fn, args, env) ==
    LET r == Invoke(fn.fn, args, env)
    IN IF r.err # "none" THEN r
       ELSE LET a == UnaryApply(fn.op, r.val)
            IN IF a.err # "none" THEN Raise(a.err, r.env) ELSE Ok(a.val, r.env)

Invoke(fn, args, env) ==
    IF fn.tag = "native" THEN InvokeNative(fn, args, env)
    ELSE InvokeWrapper(fn, args, env)

(***************************************************************************)
(* Node.eval, one operator per node class.                                 *)
(***************************************************************************)
LiteralEval(node, env) == Ok(node.value, env)

VarEval(node, env) ==
    LET r == CtxGetItem(env.ctx, node.name)
    IN IF r.err = "KeyError" THEN Raise("NameError", env)
       ELSE Ok(r.val, env)

BinOpEval(node, env) ==
    LET l == Eval(node.left, env)
    IN IF l.err # "none" THEN l
       ELSE LET r == Eval(node.right, l.env)
            IN IF r.err # "none" THEN r
               ELSE LET a == RuntimeAdd(l.val, r.val)
                    IN IF a.err # "none" THEN Raise(a.err, r.env) ELSE Ok(a.val, r.env)

\* And.eval without the short circuit: both operands are evaluated first.
AndEvalEager(node, env) ==
    LET l == Eval(node.left, env)
    IN IF l.err # "none" THEN l
       ELSE LET r == Eval(node.right, l.env)
            IN IF r.err # "none" THEN r
               ELSE IF ~is_truthy(l.val) THEN Ok(l.val, r.env)
               ELSE r

AndEval(node, env) ==
    LET l == Eval(node.left, env)
    IN IF l.err # "none" THEN l
       ELSE IF ~is_truthy(l.val) THEN l
       ELSE Eval(node.right, l.env)

OrEval(node, env) ==
    LET l == Eval(node.left, env)
    IN IF l.err # "none" THEN l
       ELSE IF is_truthy(l.val) THEN l
       ELSE Eval(node.right, l.env)

UnaryOpEval(node, env) ==
    LET v == Eval(node.right, env)
    IN IF v.err # "none" THEN v
       ELSE IF IsCallable(v.val)
       THEN Ok(Wrapper(node.op, v.val, v.env.nextId),
               [v.env EXCEPT !.nextId = @ + 1])
       ELSE LET a == UnaryApply(node.op, v.val)
            IN IF a.err # "none" THEN Raise(a.err, v.env) ELSE Ok(a.val, v.env)

\* [arg.eval(ctx) for arg in self.params], from index i on; vals are the
\* values collected so far.
EvalParams(params, i, acc) ==
    IF acc.err # "none" \/ i > Len(params) THEN acc
    ELSE LET r == Eval(params[i], acc.env)
         IN IF r.err # "none"
            THEN [vals |-> acc.vals, err |-> r.err, env |-> r.env]
            ELSE EvalParams(params, i + 1,
                            [vals |-> Append(acc.vals, r.val), err |-> "none", env |-> r.env])

\* Call.eval that tests callable(fn) before it evaluates the arguments.
CallEvalChecksFirst(node, env) ==
    LET fn == Eval(node.callee, env)
    IN IF fn.err # "none" THEN fn
       ELSE IF ~IsCallable(fn.val) THEN Raise("TypeError", fn.env)
       ELSE LET args == EvalParams(node.params, 1,
                                   [vals |-> <<>>, err |-> "none", env |-> fn.env])
            IN IF args.err # "none" THEN Raise(args.err, args.env)
               ELSE Invoke(fn.val, args.vals, args.env)

\* Call.eval that evaluates the arguments before the callee.
CallEvalArgsFirst(node, env) ==
    LET args == EvalParams(node.params, 1,
                           [vals |-> <<>>, err |-> "none", env |-> env])
    IN IF args.err # "none" THEN Raise(args.err, args.env)
       ELSE LET fn == Eval(node.callee, args.env)
            IN IF fn.err # "none" THEN fn
               ELSE IF IsCallable(fn.val) THEN Invoke(fn.val, args.vals, fn.env)
               ELSE Raise("TypeError", fn.env)

CallEval(node, env) ==
    LET fn == Eval(node.callee, env)
    IN IF fn.err # "none" THEN fn
       ELSE LET args == EvalParams(node.params, 1,
                                   [vals |-> <<>>, err |-> "none", env |-> fn.env])
            IN IF args.err # "none" THEN Raise(args.err, args.env)
               ELSE IF IsCallable(fn.val) THEN Invoke(fn.val, args.vals, args.env)
               ELSE Raise("TypeError", args.env)

\* Assign.eval that declares: a name bound nowhere is bound in the innermost
\* scope instead of failing.
AssignEvalDeclares(node, env) ==
    LET v == Eval(node.value, env)
    IN IF v.err # "none" THEN v
       ELSE LET w == CtxSetItem(v.env.ctx, node.name, v.val)
            IN IF w.err # "none"
               THEN Ok(v.val, [v.env EXCEPT !.ctx =
                                  [@ EXCEPT ![1] = (node.name :> v.val) @@ @]])
               ELSE Ok(v.val, [v.env EXCEPT !.ctx = w.ctx])

AssignEval(node, env) ==
    LET v == Eval(node.value, env)
    IN IF v.err # "none" THEN v
       ELSE LET w == CtxSetItem(v.env.ctx, node.name, v.val)
            IN IF w.err # "none" THEN Raise(w.err, v.env)
               ELSE Ok(v.val, [v.env EXCEPT !.ctx = w.ctx])

GetattrEval(node, env) ==
    LET v == Eval(node.obj, env)
    IN IF v.err # "none" THEN v
       ELSE IF HeapHas(v.env.heap, v.val, node.attr)
       THEN Ok(HeapGet(v.env.heap, v.val, node.attr), v.env)
       ELSE Raise("AttributeError", v.env)

SetattrEval(node, env) ==
    LET target == Eval(node.obj, env)
    IN IF target.err # "none" THEN target
       ELSE LET v == Eval(node.value, target.env)
            IN IF v.err # "none" THEN v
               ELSE IF ~HasDict(target.val) THEN Raise("AttributeError", v.env)
               ELSE Ok(v.val, [v.env EXCEPT !.heap = HeapSet(@, target.val, node.name, v.val)])

PrintEval(node, env) ==
    LET v == Eval(node.expr, env)
    IN IF v.err # "none" THEN v
       ELSE Ok(Nil, [v.env EXCEPT !.out = Append(@, PyStr(v.val))])

Eval(node, env) ==
    CASE node.kind = "Literal" -> LiteralEval(node, env)
      [] node.kind = "Var" -> VarEval(node, env)
      [] node.kind = "BinOp" -> BinOpEval(node, env)
      [] node.kind = "And" -> AndEval(node, env)
      [] node.kind = "Or" -> OrEval(node, env)
      [] node.kind = "UnaryOp" -> UnaryOpEval(node, env)
      [] node.kind = "Call" -> CallEval(node, env)
      [] node.kind = "Assign" -> AssignEval(node, env)
      [] node.kind = "Getattr" -> GetattrEval(node, env)
      [] node.kind = "Setattr" -> SetattrEval(node, env)
      [] node.kind = "Print" -> PrintEval(node, env)
(***************************************************************************)
(* LoxTransformer: the AST the front end builds.  A token is the sequence  *)
(* of its characters.                                                      *)
(***************************************************************************)
DigitOf(ch) ==
    CASE ch = "0" -> 0 [] ch = "1" -> 1 [] ch = "2" -> 2 [] ch = "3" -> 3
      [] ch = "4" -> 4 [] ch = "5" -> 5 [] ch = "6" -> 6 [] ch = "7" -> 7
      [] ch = "8" -> 8 [] ch = "9" -> 9

RECURSIVE DigitsValue(_)
\* The number a string of decimal digits denotes.
DigitsValue(token) ==
    IF token = <<>> THEN 0
    ELSE 10 * DigitsValue(SubSeq(token, 1, Len(token) - 1)) + DigitOf(token[Len(token)])

RECURSIVE Text(_)
\* str of a sequence of characters.
Text(chars) == IF chars = <<>> THEN "" ELSE Head(chars) \o Text(Tail(chars))

\* float(token), for a token of digits only.
NUMBER(token) == Literal(Float(1, DigitsValue(token)))

\* str(token)[1:-1]: the token without its quotes.
STRING_(token) == Literal(Str(Text(SubSeq(token, 2, Len(token) - 1))))

NIL == Literal(Nil)

BOOL(token) == Literal(Bool(token = <<"t", "r", "u", "e">>))

VAR(token) == Var(Text(token))

or_(left, right) == Or(left, right)

and_(left, right) == And(left, right)

not_(right) ==
    IF right.kind = "Call"
    THEN Call(UnaryOp("not", right.callee), right.params)
    ELSE UnaryOp("not", right)

\* neg with the operator of not_ in the rewritten tree.
negAsNot(right) ==
    IF right.kind = "Call"
    THEN Call(UnaryOp("not", right.callee), right.params)
    ELSE UnaryOp("neg", right)

neg(right) ==
    IF right.kind = "Call"
    THEN Call(UnaryOp("neg", right.callee), right.params)
    ELSE UnaryOp("neg", right)

add(left, right) == BinOp(left, right, "add")

assign(name, expr) == Assign(name.name, expr)

setattr(obj, attr, value) == Setattr(obj, attr.name, value)

getattr(obj, attr) == Getattr(obj, attr.name)

call(callee, params) == Call(callee, params)

print_cmd(expr) == PrintStmt(expr)

program(list) == list

(***************************************************************************)
(* The inputs explored: the statements a Program is drawn from and the     *)
(* context it is run in.                                                   *)
(***************************************************************************)
True == BOOL(<<"t", "r", "u", "e">>)
False == BOOL(<<"f", "a", "l", "s", "e">>)
Zero == NUMBER(<<"0">>)
One == NUMBER(<<"1">>)
Empty == STRING_(<<"\"", "\"">>)
LetterA == STRING_(<<"\"", "a", "\"">>)
VarX == VAR(<<"x">>)
VarU == VAR(<<"u">>)
VarId == VAR(<<"i", "d">>)
VarCount == VAR(<<"c", "o", "u", "n", "t">>)
VarO == VAR(<<"o">>)
AttrA == VAR(<<"a">>)
\* x = e: the expression with a visible effect used as an operand below.
SetX(e) == assign(VarX, e)

LogicStmts ==
    LET lefts == {False, NIL, Zero, Empty, VarId, VarU}
    IN {and_(l, SetX(One)) : l \in lefts} \cup {or_(l, SetX(One)) : l \in lefts}
         \cup {or_(False, VarU), and_(One, VarU)}

UnaryStmts ==
    {not_(e) : e \in {True, False, NIL, Zero, Empty, VarCount}}
      \cup {neg(e) : e \in {True, NIL, One, Empty, VarCount}}

\* -f(args) and !f(args) as the transformer builds them, and the same source
\* text as the tree UnaryOp(op, Call(f, args)).
UnaryCallStmts ==
    LET calls1 == {call(VarId, <<e>>) : e \in {One, True, VarId}}
    IN {neg(c) : c \in calls1 \cup {call(VarCount, <<>>)}}
         \cup {not_(c) : c \in calls1 \cup {call(VarId, <<NIL>>)}}
         \cup {UnaryOp(op, call(VarId, <<VarId>>)) : op \in {"neg", "not"}}
         \cup {not_(call(VarCount, <<SetX(neg(VarId))>>))}

AssignStmts == {SetX(One), assign(VarU, One), VarX, VarU}

CallStmts ==
    {call(One, <<>>), call(Empty, <<SetX(One)>>), call(NIL, <<VarU>>),
     call(VarId, <<One>>), call(VarId, <<>>), call(VarId, <<VarU>>),
     call(VarCount, <<SetX(One), SetX(True)>>),
     call(SetX(VarCount), <<SetX(One)>>)}

BinOpStmts == {add(SetX(One), SetX(Zero)), add(Empty, SetX(One)), add(VarU, SetX(One))}

AttrStmts ==
    {setattr(VarO, AttrA, One), getattr(VarO, AttrA), getattr(One, AttrA),
     setattr(One, AttrA, SetX(One)), setattr(SetX(VarO), AttrA, SetX(One)),
     setattr(VarU, AttrA, SetX(One)), setattr(neg(VarId), AttrA, One)}

PrintStmts ==
    {print_cmd(e) : e \in {True, False, NIL, One, LetterA, VarU, neg(True),
                           neg(call(VarId, <<LetterA>>))}}

Stmts ==
    LogicStmts \cup UnaryStmts \cup UnaryCallStmts \cup AssignStmts
      \cup CallStmts \cup BinOpStmts \cup AttrStmts \cup PrintStmts

Programs == UNION {[1..n -> Stmts] : n \in 1..MaxStmts}

\* The global scope holds the host's natives and object; an inner scope
\* shadows x.
GlobalScope ==
    ("id" :> Native("id")) @@ ("count" :> Native("count"))
      @@ ("o" :> Obj(0)) @@ ("x" :> Str("global"))

InnerScope == ("x" :> Nil)

InitCtx == <<InnerScope, GlobalScope>>

\* The environment Program.eval starts in: nothing printed, no native called,
\* no attribute set, the next wrapper is the first.
InitEnv == Env(InitCtx, <<>>, <<>>, <<>>, 1)

NoNode == [kind |-> "None"]

(***************************************************************************)
(* Program.eval: the loop over self.stmts.                                 *)
(***************************************************************************)
CurEnv == Env(ctx, heap, out, calls, nextId)

Init ==
    /\ stmts \in {program(p) : p \in Programs}
    /\ pc = 1
    /\ status = "running"
    /\ ctx = InitEnv.ctx
    /\ heap = InitEnv.heap
    /\ out = InitEnv.out
    /\ calls = InitEnv.calls
    /\ nextId = InitEnv.nextId
    /\ last = [node |-> NoNode, pre |-> CurEnv, val |-> Nil, err |-> "none"]

\* What stmt.eval(ctx) leaves behind, whether it returns or raises.
Effects(r) ==
    /\ ctx' = r.env.ctx
    /\ heap' = r.env.heap
    /\ out' = r.env.out
    /\ calls' = r.env.calls
    /\ nextId' = r.env.nextId
    /\ last' = [node |-> stmts[pc], pre |-> CurEnv, val |-> r.val, err |-> r.err]

\* stmt.eval(ctx) returns: the loop goes on to the next statement.
StmtReturns ==
    /\ status = "running"
    /\ pc <= Len(stmts)
    /\ LET r == Eval(stmts[pc], CurEnv)
       IN /\ r.err = "none"
          /\ Effects(r)
          /\ pc' = pc + 1
          /\ UNCHANGED <<stmts, status>>

\* A loop that catches the exception and goes on to the next statement.
StmtRaisesSwallowed ==
    /\ status = "running"
    /\ pc <= Len(stmts)
    /\ LET r == Eval(stmts[pc], CurEnv)
       IN /\ r.err # "none"
          /\ Effects(r)
          /\ pc' = pc + 1
          /\ UNCHANGED <<stmts, status>>

\* stmt.eval(ctx) raises: the exception leaves the loop and Program.eval.
StmtRaises ==
    /\ status = "running"
    /\ pc <= Len(stmts)
    /\ LET r == Eval(stmts[pc], CurEnv)
       IN /\ r.err # "none"
          /\ Effects(r)
          /\ status' = "error"
          /\ UNCHANGED <<stmts, pc>>

\* The list is exhausted: Program.eval returns.
ProgramReturns ==
    /\ status = "running"
    /\ pc > Len(stmts)
    /\ status' = "done"
    /\ UNCHANGED <<stmts, pc, ctx, heap, out, calls, nextId, last>>

Next == StmtReturns \/ StmtRaises \/ ProgramReturns

Spec == Init /\ [][Next]_vars

(***************************************************************************)
(* Properties.  last holds the statement Program.eval ran most recently,   *)
(* the environment it started from and how it ended; the current variables *)
(* are the environment it left.                                            *)
(***************************************************************************)
Acted == last.node # NoNode

LastResult == [val |-> last.val, err |-> last.err, env |-> CurEnv]

RECURSIVE InOrder(_, _)
\* The nodes evaluated one after the other from the left, each once, each in
\* the environment its predecessor left, up to the first that raises.
InOrder(nodes, env) ==
    IF nodes = <<>> THEN [vals |-> <<>>, err |-> "none", env |-> env]
    ELSE LET h == Eval(Head(nodes), env)
         IN IF h.err # "none" THEN [vals |-> <<>>, err |-> h.err, env |-> h.env]
            ELSE LET t == InOrder(Tail(nodes), h.env)
                 IN [vals |-> <<h.val>> \o t.vals, err |-> t.err, env |-> t.env]

\* The falsy values of the language: false and nil.
Falsy(v) == v.tag = "nil" \/ (v.tag = "bool" /\ v.b = FALSE)

\* C1 (short circuit): And evaluates its right operand only when the left
\* value is truthy, Or only when it is falsy; a skipped right operand leaves
\* no effect and the result is the left value itself; when the right operand
\* is evaluated the result is its result.
ShortCircuit ==
    last.node.kind \in {"And", "Or"} =>
        LET l == Eval(last.node.left, last.pre)
            skips == IF last.node.kind = "And" THEN Falsy(l.val) ELSE ~Falsy(l.val)
        IN l.err = "none" =>
             IF skips THEN LastResult = Ok(l.val, l.env)
             ELSE LastResult = Eval(last.node.right, l.env)

\* An And whose left value is nil was run, and running its right operand
\* would have changed the environment.
ShortCircuitWitness ==
    /\ last.node.kind = "And"
    /\ LET l == Eval(last.node.left, last.pre)
       IN /\ l.err = "none"
          /\ l.val = Nil
          /\ Eval(last.node.right, l.env).env # l.env
          /\ last.val = Nil
          /\ CurEnv = last.pre

SampleValues ==
    {Bool(TRUE), Bool(FALSE), Nil, Float(1, 0), Float(-1, 0), Float(1, 1), PyInt(0),
     PyInt(-1), Str(""), Str("a"), Native("id"), Native("count"), Obj(0),
     Wrapper("neg", Native("id"), 1), Wrapper("not", Native("count"), 2)}

\* C2 (truthiness table): is_truthy is false exactly for false and nil, and
\* the tests made by Not, And and Or follow the same table.
TruthinessTable ==
    /\ \A v \in SampleValues \cup {last.val} :
          /\ is_truthy(v) = ~Falsy(v)
          /\ UnaryApply("not", v) = [val |-> Bool(Falsy(v)), err |-> "none"]
    /\ (last.node.kind = "UnaryOp" /\ last.node.op = "not") =>
          LET v == Eval(last.node.right, last.pre)
          IN (v.err = "none" /\ ~IsCallable(v.val)) =>
                (last.err = "none" /\ last.val = Bool(Falsy(v.val)))
    /\ last.node.kind \in {"And", "Or"} =>
          LET l == Eval(last.node.left, last.pre)
              keepsLeft == IF last.node.kind = "And" THEN Falsy(l.val) ELSE ~Falsy(l.val)
          IN l.err = "none" =>
               last.val = IF keepsLeft THEN l.val ELSE Eval(last.node.right, l.env).val

\* An Or whose left value is the number 0 was run and returned that 0: zero
\* is truthy.
TruthinessWitness ==
    /\ last.node.kind = "Or"
    /\ last.node.left = Zero
    /\ last.err = "none"
    /\ last.val = Float(1, 0)
\* The failure of a lookup or an assignment of a name bound nowhere.
UndefinedVariable(err) == err \in {"KeyError", "NameError"}

\* C3 (assignment never declares): Assign of a name bound nowhere in the
\* chain fails with an undefined-variable error and binds nothing; Assign of
\* a bound name returns the value of the expression, and a lookup of the
\* name afterwards gives that value.
AssignNeverDeclares ==
    last.node.kind = "Assign" =>
        LET v == Eval(last.node.value, last.pre)
            lookup == Eval(Var(last.node.name), CurEnv)
        IN v.err = "none" =>
             IF CtxHas(v.env.ctx, last.node.name)
             THEN /\ last.err = "none"
                  /\ last.val = v.val
                  /\ lookup = Ok(v.val, CurEnv)
             ELSE /\ UndefinedVariable(last.err)
                  /\ ~CtxHas(ctx, last.node.name)
                  /\ CurEnv = v.env
                  /\ UndefinedVariable(lookup.err)

\* u = 1 was run with u bound nowhere, and failed.
AssignWitness ==
    /\ last.node = assign(VarU, One)
    /\ ~CtxHas(last.pre.ctx, "u")
    /\ last.err = "KeyError"
    /\ status = "error"

\* The Number values of the language.
IsNumber(v) == v.tag = "float"

\* C4 (Neg wants a number): UnaryOp Neg on a Boolean, a String or Nil fails
\* with TypeError and yields no value; on a Number n it yields -n.
NegRequiresNumber ==
    (last.node.kind = "UnaryOp" /\ last.node.op = "neg") =>
        LET v == Eval(last.node.right, last.pre)
        IN v.err = "none" =>
             /\ v.val.tag \in {"bool", "str", "nil"} =>
                   (last.err = "TypeError" /\ last.val = Nil)
             /\ IsNumber(v.val) =>
                   (last.err = "none" /\ last.val = Float(0 - v.val.sign, v.val.mag))

\* C5 (deferred application): a UnaryOp whose operand is a Callable yields a
\* new Callable without calling anything; calling that with args calls the
\* wrapped Callable once with the same args and applies the operator to what
\* it returns: Neg fails with TypeError unless that is a Number, Not returns
\* its negated truthiness.
DeferredApplication ==
    /\ last.node.kind = "UnaryOp" =>
          LET v == Eval(last.node.right, last.pre)
          IN (v.err = "none" /\ IsCallable(v.val)) =>
               /\ last.err = "none"
               /\ last.val.tag = "wrapper"
               /\ calls = v.env.calls
    /\ (last.node.kind = "Call" /\ last.node.callee.kind = "UnaryOp") =>
          LET op == last.node.callee.op
              f == Eval(last.node.callee.right, last.pre)
              w == Eval(last.node.callee, last.pre)
              args == InOrder(last.node.params, w.env)
              r == Invoke(f.val, args.vals, args.env)
          IN (f.err = "none" /\ IsCallable(f.val) /\ args.err = "none" /\ r.err = "none") =>
               /\ w.val.tag = "wrapper"
               /\ calls = r.env.calls
               /\ IF op = "neg"
                  THEN IF IsNumber(r.val)
                       THEN last.err = "none"
                              /\ last.val = Float(0 - r.val.sign, r.val.mag)
                       ELSE last.err = "TypeError"
                  ELSE last.err = "none" /\ last.val = Bool(Falsy(r.val))

\* The text the language prescribes for a printed value.
LoxText(v) ==
    CASE v.tag = "bool" -> IF v.b THEN "true" ELSE "false"
      [] v.tag = "nil" -> "nil"
      [] v.tag = "float" -> (IF v.sign < 0 THEN "-" ELSE "") \o IntText(v.mag)
      [] v.tag = "str" -> v.s

\* C6 (printed text): Print writes true/false for a Boolean, nil for Nil, an
\* integral Number without a fractional part and a String as its contents.
PrintConventions ==
    last.node.kind = "Print" =>
        LET v == Eval(last.node.expr, last.pre)
        IN (v.err = "none" /\ v.val.tag \in {"bool", "nil", "float", "str"}) =>
             /\ last.err = "none"
             /\ out = Append(v.env.out, LoxText(v.val))
\* The operands a node evaluates unconditionally, in the order of its code.
Operands(node) ==
    CASE node.kind \in {"And", "Or"} -> <<node.left>>
      [] node.kind = "BinOp" -> <<node.left, node.right>>
      [] node.kind = "UnaryOp" -> <<node.right>>
      [] node.kind = "Call" -> <<node.callee>> \o node.params
      [] node.kind = "Assign" -> <<node.value>>
      [] node.kind = "Getattr" -> <<node.obj>>
      [] node.kind = "Setattr" -> <<node.obj, node.value>>
      [] node.kind = "Print" -> <<node.expr>>
      [] OTHER -> <<>>

RECURSIVE WrapperPropagates(_, _, _)
\* Called with args in env, a wrapper passes on the error of the callable it
\* wraps and the error of the operator applied to that callable's result.
WrapperPropagates(fn, args, env) ==
    fn.tag = "wrapper" =>
        LET inner == Invoke(fn.fn, args, env)
            res == Invoke(fn, args, env)
        IN /\ inner.err # "none" => res = inner
           /\ (inner.err = "none" /\ UnaryApply(fn.op, inner.val).err # "none") =>
                 res = Raise(UnaryApply(fn.op, inner.val).err, inner.env)
           /\ WrapperPropagates(fn.fn, args, env)

RECURSIVE Propagates(_, _)
\* Evaluated in env, the node and every node below it passes on the first
\* error of its operands, of the right operand And and Or go on to, and of
\* the callable a Call invokes: same error, no value, and the environment as
\* the error left it.
Propagates(node, env) ==
    LET ops == Operands(node)
        run == InOrder(ops, env)
        res == Eval(node, env)
    IN /\ run.err # "none" => res = Raise(run.err, run.env)
       /\ (run.err = "none" /\ node.kind \in {"And", "Or"}) =>
             LET goesOn == IF node.kind = "And" THEN ~Falsy(run.vals[1])
                           ELSE Falsy(run.vals[1])
                 r == Eval(node.right, run.env)
             IN /\ (goesOn /\ r.err # "none") => res = Raise(r.err, r.env)
                /\ goesOn => Propagates(node.right, run.env)
       /\ (run.err = "none" /\ node.kind = "Call" /\ IsCallable(run.vals[1])) =>
             LET r == Invoke(run.vals[1], Tail(run.vals), run.env)
             IN /\ r.err # "none" => res = Raise(r.err, r.env)
                /\ WrapperPropagates(run.vals[1], Tail(run.vals), run.env)
       /\ \A i \in 1..Len(ops) :
             LET before == InOrder(SubSeq(ops, 1, i - 1), env)
             IN before.err = "none" => Propagates(ops[i], before.env)

\* C7 (error propagation): the first error raised by a statement or by an
\* expression nested in it ends Program.eval with that error; no later
\* statement runs, and no node turns the error into a value.
ErrorPropagation ==
    /\ Acted => Propagates(last.node, last.pre)
    /\ (Acted /\ last.err # "none") =>
          /\ status = "error"
          /\ pc <= Len(stmts)
          /\ last.node = stmts[pc]
          /\ LastResult = Eval(stmts[pc], last.pre)
          /\ last.val = Nil
    /\ status = "error" => (Acted /\ last.err # "none")
    /\ status = "done" => (Acted /\ last.err = "none" /\ pc = Len(stmts) + 1)

\* The first of two statements printed the negation of a call that returned
\* a string: the TypeError raised inside the wrapper ended the program, and
\* nothing was printed.
ErrorPropagationWitness ==
    /\ Len(stmts) = 2
    /\ status = "error"
    /\ pc = 1
    /\ last.node = print_cmd(neg(call(VarId, <<LetterA>>)))
    /\ last.err = "TypeError"
    /\ out = <<>>
    /\ calls # <<>>

\* The native function at the bottom of a callable.
RECURSIVE BaseNative(_)
BaseNative(fn) == IF fn.tag = "wrapper" THEN BaseNative(fn.fn) ELSE fn

\* The argument count suits the native function's signature.
ArityFits(fn, vals) == BaseNative(fn).name = "id" => Len(vals) = 1

\* C8 as stated (calling): a Call whose callee is not a Callable fails with
\* TypeError and yields no value; a Call whose callee is a Callable invokes
\* it exactly once with the argument values in order (there being such
\* values) and returns its result.
CallContract ==
    last.node.kind = "Call" =>
        LET f == Eval(last.node.callee, last.pre)
            args == InOrder(last.node.params, f.env)
        IN f.err = "none" =>
             /\ ~IsCallable(f.val) => (last.err = "TypeError" /\ last.val = Nil)
             /\ (IsCallable(f.val) /\ args.err = "none") =>
                   /\ LastResult = Invoke(f.val, args.vals, args.env)
                   /\ ArityFits(f.val, args.vals) =>
                         calls = Append(args.env.calls,
                                        [fn |-> BaseNative(f.val).name, args |-> args.vals])

\* C8 as amended: the same once every argument expression has been evaluated
\* without error; when one raises, the Call fails with that error, whatever
\* the callee is, and nothing is invoked.
CallContractArgsEvaluated ==
    last.node.kind = "Call" =>
        LET f == Eval(last.node.callee, last.pre)
            args == InOrder(last.node.params, f.env)
        IN f.err = "none" =>
             /\ args.err # "none" => LastResult = Raise(args.err, args.env)
             /\ (args.err = "none" /\ ~IsCallable(f.val)) =>
                   LastResult = Raise("TypeError", args.env)
             /\ (args.err = "none" /\ IsCallable(f.val)) =>
                   /\ LastResult = Invoke(f.val, args.vals, args.env)
                   /\ ArityFits(f.val, args.vals) =>
                         calls = Append(args.env.calls,
                                        [fn |-> BaseNative(f.val).name, args |-> args.vals])

\* A string was called with an argument that assigns x: the Call failed with
\* TypeError after the assignment took place.
CallWitness ==
    /\ last.node = call(Empty, <<SetX(One)>>)
    /\ last.err = "TypeError"
    /\ CtxGetItem(ctx, "x").val = Float(1, 1)
    /\ CtxGetItem(last.pre.ctx, "x").val # Float(1, 1)

\* C9 (evaluation order): the statements of the Program take effect in list
\* order; a Call evaluates its callee, then its arguments from the left,
\* each once, and then invokes; BinOp and Setattr evaluate the left (object)
\* operand before the right (value) operand.
EvaluationOrder ==
    /\ LET ran == IF status = "error" THEN pc ELSE pc - 1
           run == InOrder(SubSeq(stmts, 1, ran), InitEnv)
       IN /\ run.env = CurEnv
          /\ (status = "error") = (run.err # "none")
          /\ ran > 0 => last.node = stmts[ran]
    /\ last.node.kind = "Call" =>
          LET run == InOrder(<<last.node.callee>> \o last.node.params, last.pre)
          IN IF run.err # "none" THEN LastResult = Raise(run.err, run.env)
             ELSE IF IsCallable(run.vals[1])
             THEN LastResult = Invoke(run.vals[1], Tail(run.vals), run.env)
             ELSE LastResult = Raise("TypeError", run.env)
    /\ last.node.kind = "BinOp" =>
          LET run == InOrder(<<last.node.left, last.node.right>>, last.pre)
          IN /\ CurEnv = run.env
             /\ run.err # "none" => last.err = run.err
             /\ run.err = "none" =>
                   [val |-> last.val, err |-> last.err] = RuntimeAdd(run.vals[1], run.vals[2])
    /\ last.node.kind = "Setattr" =>
          LET run == InOrder(<<last.node.obj, last.node.value>>, last.pre)
          IN /\ ctx = run.env.ctx
             /\ calls = run.env.calls
             /\ run.err # "none" => last.err = run.err
             /\ (run.err = "none" /\ last.err = "none") =>
                   /\ last.val = run.vals[2]
                   /\ HeapHas(heap, run.vals[1], last.node.name)
                   /\ HeapGet(heap, run.vals[1], last.node.name) = run.vals[2]

\* count(x = 1, x = true) was run as the second statement: count received
\* 1 and true in that order and x is left holding true.
EvaluationOrderWitness ==
    /\ pc = 3
    /\ last.node = call(VarCount, <<SetX(One), SetX(True)>>)
    /\ calls # <<>>
    /\ calls[Len(calls)] = [fn |-> "count", args |-> <<Float(1, 1), Bool(TRUE)>>]
    /\ CtxGetItem(ctx, "x").val = Bool(TRUE)

RECURSIVE Anon(_)
\* A value without the identities of the wrapper functions in it.
Anon(v) == IF v.tag = "wrapper" THEN Wrapper(v.op, Anon(v.fn), 0) ELSE v

AnonAll(f) == [k \in DOMAIN f |-> Anon(f[k])]

\* What an evaluation leaves to observe: its value or error, the bindings,
\* the attributes of the host objects, the output and the native calls, all
\* up to the identity of wrapper functions.
Observable(r) ==
    [val |-> Anon(r.val),
     err |-> r.err,
     ctx |-> [i \in DOMAIN r.env.ctx |-> AnonAll(r.env.ctx[i])],
     objs |-> [k \in {j \in DOMAIN r.env.heap : j <= 0} |-> AnonAll(r.env.heap[k])],
     out |-> r.env.out,
     calls |-> [i \in DOMAIN r.env.calls |->
                  [fn |-> r.env.calls[i].fn, args |-> AnonAll(r.env.calls[i].args)]]]

\* The last statement is what the transformer builds for -f(args) or
\* !f(args), and f evaluates to a Callable.
RewrittenCallRan ==
    /\ last.node.kind = "Call"
    /\ last.node.callee.kind = "UnaryOp"
    /\ LET inner == call(last.node.callee.right, last.node.params)
       IN last.node = IF last.node.callee.op = "neg" THEN neg(inner) ELSE not_(inner)
    /\ LET f == Eval(last.node.callee.right, last.pre)
       IN f.err = "none" /\ IsCallable(f.val)

\* The same source as the tree UnaryOp(op, Call(f, args)).
DirectTree == UnaryOp(last.node.callee.op, Call(last.node.callee.right, last.node.params))

\* What the transformer builds for the operator op in front of the call c.
RewriteOf(op, c) == IF op = "neg" THEN neg(c) ELSE not_(c)

\* In env the callee of the call c evaluates to a Callable.
CalleeCallable(c, env) ==
    LET f == Eval(c.callee, env) IN f.err = "none" /\ IsCallable(f.val)

\* In env the call c returns a Callable.
ReturnsCallable(c, env) ==
    LET r == Eval(c, env) IN r.err = "none" /\ IsCallable(r.val)

\* The transformer turns op in front of the call c into Call(UnaryOp(op, f),
\* args), and evaluated in env that tree has the outcome of UnaryOp(op, c).
SameOutcome(op, c, env) ==
    /\ RewriteOf(op, c) = Call(UnaryOp(op, c.callee), c.params)
    /\ Observable(Eval(RewriteOf(op, c), env)) = Observable(Eval(UnaryOp(op, c), env))

\* C10 as stated (rewrite equivalence): for a Callable f the rewritten tree
\* Call(UnaryOp(op, f), args) has the outcome of UnaryOp(op, Call(f, args)):
\* for the rewritten statement that ran, and for either operator put in
\* front of any Call statement that ran, in the environment it ran in.
RewriteEquivalence ==
    /\ RewrittenCallRan =>
          Observable(LastResult) = Observable(Eval(DirectTree, last.pre))
    /\ (last.node.kind = "Call" /\ CalleeCallable(last.node, last.pre)) =>
          \A op \in {"neg", "not"} : SameOutcome(op, last.node, last.pre)

\* C10 as amended: the same, unless f(args) returns a Callable.
RewriteEquivalenceNonCallableResult ==
    /\ (RewrittenCallRan /\ ~ReturnsCallable(DirectTree.right, last.pre)) =>
          Observable(LastResult) = Observable(Eval(DirectTree, last.pre))
    /\ (last.node.kind = "Call" /\ CalleeCallable(last.node, last.pre)
          /\ ~ReturnsCallable(last.node, last.pre)) =>
          \A op \in {"neg", "not"} : SameOutcome(op, last.node, last.pre)

\* -id(1) was run as the transformer builds it: id was called once with 1 and
\* the result is -1.
RewriteWitness ==
    /\ RewrittenCallRan
    /\ last.node = neg(call(VarId, <<One>>))
    /\ last.err = "none"
    /\ last.val = Float(-1, 1)
    /\ calls = Append(last.pre.calls, [fn |-> "id", args |-> <<Float(1, 1)>>])

====
